---- MODULE Spec2Model ----
(***************************************************************************)
(* Model of the asynchronous wakeup primitives of src/utils:               *)
(*   event.rs   the single-wait Notifier / Listener pair sharing an Inner  *)
(*   notify.rs  the broadcast Notify with its WakerList                    *)
(* Every operation runs on the one thread that drives the scheduler, so    *)
(* each handler is one atomic action.  Variables prefixed ev / bc that do  *)
(* not name a field of the source are history variables: they record what  *)
(* the callers did and what the handlers returned.                         *)
(***************************************************************************)
EXTENDS Integers, Sequences, FiniteSets, TLC

\* ------------------------------------------------------------------ bounds
\* number of distinct wake handles a poll of the single-wait future may pass
NWakers == 2
\* the poll counter of the current single-wait future saturates here
MaxPolls == 3
\* the count of notify() calls since the latest poll saturates here
MaxFresh == 2
\* the excess of notify() calls over Ready polls saturates here
MaxSurplus == 2

Wakers == 1..NWakers
\* Option<Waker>::None
NoWaker == 0

Min(a, b) == IF a < b THEN a ELSE b

VARIABLES
    state,      \* event.rs Inner.state : Cell<bool>
    waker,      \* event.rs Inner.waker : Cell<Option<Waker>>
    evFut,      \* the Listener's Notified future: "none", "created" (never
                \* polled), "pending" / "ready" (what its last poll returned)
    evOp,       \* the latest single-wait operation
    evResult,   \* what the latest operation returned if it was a poll
    evWoken,    \* the handles whose wake() the latest operation invoked
    evSched,    \* handles invoked and not yet re-polled by the scheduler
    evPolls,    \* polls of the current future (saturating at MaxPolls)
    evFresh,    \* notify() calls since the latest poll, or since event()
                \* (saturating at MaxFresh)
    evOwed,     \* a notify() happened before the first poll of the current
                \* future or while it was outstanding, and the future has not
                \* returned Ready since
    evBurst,    \* the value of evFresh when the latest poll was made
    evSince,    \* a notify() happened after the current future was created
    evCredit,   \* a notify() happened after the latest poll that returned
                \* Ready (or, if there was none, after event())
    evStale,    \* some future of the pair was dropped before it returned Ready
    evLive,     \* the number of Notified futures of the Listener that exist
    evLastW,    \* the handle passed to the most recent poll that returned
                \* Pending since the latest notify() (NoWaker if none)
    evReplaced, \* the latest poll returned Pending while a Pending poll with
                \* another handle had been made since the latest notify()
    evAtWake,   \* the value Inner.state had when wake() was last invoked
    evSurplus   \* notify() calls minus polls that returned Ready (the
                \* saturation at MaxSurplus only lowers it)

evVars == <<state, waker, evFut, evOp, evResult, evWoken, evSched, evPolls,
            evFresh, evOwed, evBurst, evSince, evCredit, evStale, evLive,
            evLastW, evReplaced, evAtWake, evSurplus>>

\* number of tasks, each holding at most one broadcast Notified at a time
NFut == 2
\* notify() is not called any more once count has reached MaxCount
MaxCount == 2
\* a poll that would make the waker list longer than MaxList is not taken
MaxList == 2
\* a late run starts WrapGap notify() calls before count reaches u64::MAX
WrapGap == 2

\* the wake handle of task f is f
Futs == 1..NFut

VARIABLES
    count,      \* notify.rs Notify.count : Cell<u64>.  A u64 v is held as v
                \* when v < 2^63 and as v - 2^64 otherwise, so that the values
                \* next to u64::MAX are the small negative numbers
    overflowChecks, \* the build panics on integer overflow (debug profile)
                \* instead of wrapping (release profile)
    list,       \* notify.rs Notify.waker : WakerList (the SmallVec of Wakers)
    snap,       \* snap[f]: Notified.count, the snapshot task f's future holds
                \* (a u64 held like count)
    bcFut,      \* bcFut[f]: "none", "created", "pending" or "ready"
    bcOp,       \* the latest broadcast operation
    bcWho,      \* the task whose future it concerned (0 for notify())
    bcResult,   \* what the latest operation returned if it was a poll
    bcWoken,    \* the handles whose wake() the latest operation invoked
    bcSched,    \* tasks woken and not yet re-polled by the scheduler
    bcSince,    \* bcSince[f]: a notify() happened after f's future was created
    bcEver,     \* notify() has been called at least once
    bcOld,      \* bcOld[f]: a notify() happened before f's future was created
    bcStale,    \* some broadcast future was dropped before it returned Ready
    bcOver,     \* notify() has been called with count at u64::MAX
    bcAtWake,   \* the value Notify.count had when wake_all() was last called
    bcPend      \* bcPend[f]: polls of task f that returned Pending since the
                \* latest notify() (since new() if there was none)

bcVars == <<count, list, snap, bcFut, bcOp, bcWho, bcResult, bcWoken, bcSched,
            bcSince, bcEver, bcOld, bcStale, overflowChecks, bcOver,
            bcAtWake, bcPend>>

\* ------------------------------------------------------ event.rs : Inner
\* Inner::new
InnerNew ==
    /\ state = FALSE
    /\ waker = NoWaker

\* a notify() that sets the flag only when there is nobody to wake
InnerNotifyWakeOrSet ==
    /\ state' = (state \/ waker = NoWaker)
    /\ waker' = NoWaker
    /\ evWoken' = IF waker # NoWaker THEN <<waker>> ELSE <<>>
    /\ evAtWake' = IF waker # NoWaker THEN state' ELSE evAtWake

\* a notify() that records the notification but wakes nobody
InnerNotifyNoWake ==
    /\ state' = TRUE
    /\ waker' = waker
    /\ evWoken' = <<>>
    /\ evAtWake' = evAtWake

\* a notify() that wakes the stored handle before it sets the flag
InnerNotifyWakeFirst ==
    /\ evAtWake' = IF waker # NoWaker THEN state ELSE evAtWake
    /\ evWoken' = IF waker # NoWaker THEN <<waker>> ELSE <<>>
    /\ waker' = NoWaker
    /\ state' = TRUE

\* Inner::notify: state.set(true); if let Some(w) = waker.take() { w.wake() }
\* wake() runs after state.set(true), so it is invoked with the new flag
InnerNotify ==
    /\ state' = TRUE
    /\ waker' = NoWaker
    /\ evWoken' = IF waker # NoWaker THEN <<waker>> ELSE <<>>
    /\ evAtWake' = IF waker # NoWaker THEN state' ELSE evAtWake

\* a poll that stores its handle only when no handle is stored yet
InnerPollKeepFirst(w) ==
    IF state
    THEN /\ state' = FALSE
         /\ waker' = waker
         /\ evResult' = "Ready"
    ELSE /\ state' = FALSE
         /\ waker' = IF waker = NoWaker THEN w ELSE waker
         /\ evResult' = "Pending"

\* a poll that reads the flag with get() and never clears it
InnerPollNoClear(w) ==
    IF state
    THEN /\ UNCHANGED <<state, waker>>
         /\ evResult' = "Ready"
    ELSE /\ state' = FALSE
         /\ waker' = w
         /\ evResult' = "Pending"

\* a poll that registers the wake handle before it looks at the flag
InnerPollRegisterFirst(w) ==
    /\ waker' = w
    /\ state' = FALSE
    /\ evResult' = IF state THEN "Ready" ELSE "Pending"

\* Inner::poll: state.replace(false) decides; the else branch stores cx.waker()
InnerPoll(w) ==
    IF state
    THEN /\ state' = FALSE
         /\ waker' = waker
         /\ evResult' = "Ready"
    ELSE /\ state' = FALSE
         /\ waker' = w
         /\ evResult' = "Pending"

\* event(): one Inner shared by the Notifier and the Listener, no future yet
EvInit ==
    /\ InnerNew
    /\ evFut = "none"
    /\ evOp = "event"
    /\ evResult = "None"
    /\ evWoken = <<>>
    /\ evSched = {}
    /\ evPolls = 0
    /\ evFresh = 0
    /\ evOwed = FALSE
    /\ evBurst = 0
    /\ evSince = FALSE
    /\ evCredit = FALSE
    /\ evStale = FALSE
    /\ evLive = 0
    /\ evLastW = NoWaker
    /\ evReplaced = FALSE
    /\ evAtWake = FALSE
    /\ evSurplus = 0

\* a notified(&self) that does not borrow the Listener exclusively
ListenerNotifiedShared ==
    /\ evFut' = "created"
    /\ evOp' = "notified"
    /\ evResult' = "None"
    /\ evWoken' = <<>>
    /\ evPolls' = 0
    /\ evOwed' = (evFresh > 0)
    /\ evBurst' = 0
    /\ evSince' = FALSE
    /\ evLive' = evLive + 1
    /\ UNCHANGED <<state, waker, evSched, evFresh, evCredit, evStale>>
    /\ UNCHANGED <<evLastW, evReplaced, evAtWake, evSurplus>>
    /\ UNCHANGED bcVars

\* Listener::notified(&mut self): the exclusive borrow allows it only while
\* no Notified of this Listener is alive
ListenerNotified ==
    /\ evFut = "none"
    /\ evFut' = "created"
    /\ evOp' = "notified"
    /\ evResult' = "None"
    /\ evWoken' = <<>>
    /\ evPolls' = 0
    /\ evOwed' = (evFresh > 0)
    /\ evBurst' = 0
    /\ evSince' = FALSE
    /\ evLive' = evLive + 1
    /\ UNCHANGED <<state, waker, evSched, evFresh, evCredit, evStale>>
    /\ UNCHANGED <<evLastW, evReplaced, evAtWake, evSurplus>>
    /\ UNCHANGED bcVars

\* Notifier::notify
NotifierNotify ==
    /\ InnerNotify
    /\ evOp' = "notify"
    /\ evResult' = "None"
    /\ evSched' = evSched \cup {evWoken'[i] : i \in 1..Len(evWoken')}
    /\ evFresh' = Min(evFresh + 1, MaxFresh)
    /\ evOwed' = (evOwed \/ evFut \in {"created", "pending"})
    /\ evBurst' = 0
    /\ evSince' = (evFut # "none")
    /\ evCredit' = TRUE
    /\ evLastW' = NoWaker
    /\ evSurplus' = Min(evSurplus + 1, MaxSurplus)
    /\ UNCHANGED <<evFut, evPolls, evStale, evLive, evReplaced>>
    /\ UNCHANGED bcVars

\* <Notified as Future>::poll, called with the wake handle w
NotifiedPoll(w) ==
    /\ evFut # "none"
    /\ InnerPoll(w)
    /\ evFut' = IF evResult' = "Ready" THEN "ready" ELSE "pending"
    /\ evOp' = "poll"
    /\ evWoken' = <<>>
    /\ evSched' = evSched \ {w}
    /\ evPolls' = Min(evPolls + 1, MaxPolls)
    /\ evFresh' = 0
    /\ evOwed' = (evOwed /\ evResult' # "Ready")
    /\ evBurst' = evFresh
    /\ evCredit' = (evCredit /\ evResult' # "Ready")
    /\ evLastW' = IF evResult' = "Pending" THEN w ELSE evLastW
    /\ evReplaced' = (evResult' = "Pending" /\ evLastW \notin {NoWaker, w})
    /\ evSurplus' = IF evResult' = "Ready" THEN evSurplus - 1 ELSE evSurplus
    /\ UNCHANGED <<evSince, evStale, evLive, evAtWake>>
    /\ UNCHANGED bcVars

\* a Drop impl that resets the shared Inner when the future goes away
NotifiedDropReset ==
    /\ evFut # "none"
    /\ evFut' = "none"
    /\ evOp' = "drop"
    /\ evResult' = "None"
    /\ evWoken' = <<>>
    /\ evPolls' = 0
    /\ evOwed' = FALSE
    /\ evBurst' = 0
    /\ evSince' = FALSE
    /\ evStale' = (evStale \/ evFut \in {"created", "pending"})
    /\ evLive' = evLive - 1
    /\ UNCHANGED <<evLastW, evReplaced, evAtWake, evSurplus>>
    /\ state' = FALSE
    /\ waker' = NoWaker
    /\ UNCHANGED <<evSched, evFresh, evCredit>>
    /\ UNCHANGED bcVars

\* dropping the Notified (it has no Drop impl: the shared state is untouched)
NotifiedDrop ==
    /\ evFut # "none"
    /\ evFut' = "none"
    /\ evOp' = "drop"
    /\ evResult' = "None"
    /\ evWoken' = <<>>
    /\ evPolls' = 0
    /\ evOwed' = FALSE
    /\ evBurst' = 0
    /\ evSince' = FALSE
    /\ evStale' = (evStale \/ evFut \in {"created", "pending"})
    /\ evLive' = evLive - 1
    /\ UNCHANGED <<evLastW, evReplaced, evAtWake, evSurplus>>
    /\ UNCHANGED <<state, waker, evSched, evFresh, evCredit>>
    /\ UNCHANGED bcVars

\* ----------------------------------------------------------- notify.rs
Range(s) == {s[i] : i \in 1..Len(s)}

\* u64::MAX = 2^64 - 1
U64Max == -1

\* a > b on u64
U64Gt(a, b) == IF (a < 0) = (b < 0) THEN a > b ELSE a < 0

\* a <= b on u64
U64Le(a, b) == ~U64Gt(a, b)

\* WakerList::new
WakerListNew == list = <<>>

\* a push that keeps the one inline slot and loses any further handle
WakerListPushIfEmpty(w) == list' = IF list = <<>> THEN <<w>> ELSE list

\* a push that skips a handle of a task that already has one in the list
WakerListPushDedup(w) ==
    list' = IF \E i \in 1..Len(list) : list[i] = w THEN list ELSE Append(list, w)

\* WakerList::push
WakerListPush(w) == list' = Append(list, w)

\* a wake_all() that iterates over the list without draining it
WakerListWakeAllKeep ==
    /\ bcWoken' = list
    /\ list' = list

\* a wake_all() that pops and wakes one handle only
WakerListWakeOne ==
    /\ bcWoken' = IF list = <<>> THEN <<>> ELSE <<list[Len(list)]>>
    /\ list' = IF list = <<>> THEN <<>> ELSE SubSeq(list, 1, Len(list) - 1)

\* WakerList::wake_all: list.drain(..).for_each(|waker| waker.wake())
WakerListWakeAll ==
    /\ bcWoken' = list
    /\ list' = <<>>

\* Notify::new
NotifyNew ==
    /\ count = 0
    /\ WakerListNew

\* a notified() whose snapshot is one ahead of the live count
NotifyNotifiedAhead(f) ==
    /\ snap' = [snap EXCEPT ![f] = count + 1]
    /\ UNCHANGED <<count, list>>

\* a notified() that does not take the snapshot of the live count
NotifyNotifiedNoSnapshot(f) ==
    /\ snap' = [snap EXCEPT ![f] = 0]
    /\ UNCHANGED <<count, list>>

\* Notify::notified: Notified { notify: self, count: self.count.get() }
NotifyNotified(f) ==
    /\ snap' = [snap EXCEPT ![f] = count]
    /\ UNCHANGED <<count, list>>

\* a notify() that counts the notification but wakes nobody
NotifyNotifyNoWake ==
    /\ count' = count + 1
    /\ bcWoken' = <<>>
    /\ bcResult' = "None"
    /\ UNCHANGED <<list, bcAtWake>>

\* a notify() that wakes the stored handles before it increments count
NotifyNotifyWakeFirst ==
    /\ bcAtWake' = count
    /\ WakerListWakeAll
    /\ count' = count + 1
    /\ bcResult' = "None"

\* Notify::notify: count.set(count.get() + 1); waker.wake_all().  At
\* u64::MAX the addition overflows: it panics before count.set() in a build
\* with overflow checks, and wraps to 0 otherwise.
NotifyNotify ==
    IF overflowChecks /\ count = U64Max
    THEN /\ bcResult' = "Panic"
         /\ bcWoken' = <<>>
         /\ UNCHANGED <<count, list, bcAtWake>>
    ELSE /\ count' = count + 1
         /\ bcAtWake' = count'
         /\ WakerListWakeAll
         /\ bcResult' = "None"

\* a poll that pushes its handle before it compares the counts
BcNotifiedPollBodyRegisterFirst(f) ==
    /\ WakerListPush(f)
    /\ bcResult' = IF U64Gt(count, snap[f]) THEN "Ready" ELSE "Pending"

\* a poll that compares with >= and so resolves without any notification
BcNotifiedPollBodyGe(f) ==
    IF ~U64Gt(snap[f], count)
    THEN /\ bcResult' = "Ready"
         /\ UNCHANGED list
    ELSE /\ WakerListPush(f)
         /\ bcResult' = "Pending"

\* <Notified as Future>::poll of notify.rs, polled by task f
BcNotifiedPollBody(f) ==
    IF U64Gt(count, snap[f])
    THEN /\ bcResult' = "Ready"
         /\ UNCHANGED list
    ELSE /\ WakerListPush(f)
         /\ bcResult' = "Pending"

BcInit ==
    /\ NotifyNew
    /\ overflowChecks \in BOOLEAN
    /\ bcOver = FALSE
    /\ bcAtWake = 0
    /\ bcPend = [f \in Futs |-> 0]
    /\ snap = [f \in Futs |-> 0]
    /\ bcFut = [f \in Futs |-> "none"]
    /\ bcOp = "new"
    /\ bcWho = 0
    /\ bcResult = "None"
    /\ bcWoken = <<>>
    /\ bcSched = {}
    /\ bcSince = [f \in Futs |-> FALSE]
    /\ bcEver = FALSE
    /\ bcOld = [f \in Futs |-> FALSE]
    /\ bcStale = FALSE

\* task f calls notify.notified()
BcNotified(f) ==
    /\ bcFut[f] = "none"
    /\ NotifyNotified(f)
    /\ bcFut' = [bcFut EXCEPT ![f] = "created"]
    /\ bcOp' = "notified"
    /\ bcWho' = f
    /\ bcResult' = "None"
    /\ bcWoken' = <<>>
    /\ bcSince' = [bcSince EXCEPT ![f] = FALSE]
    /\ bcOld' = [bcOld EXCEPT ![f] = bcEver]
    /\ UNCHANGED <<bcSched, bcEver, bcStale, overflowChecks, bcOver>>
    /\ UNCHANGED <<bcAtWake, bcPend>>
    /\ UNCHANGED evVars

\* some task calls notify.notify()
BcNotify ==
    /\ count < MaxCount
    /\ NotifyNotify
    /\ bcOp' = "notify"
    /\ bcWho' = 0
    /\ bcSched' = bcSched \cup Range(bcWoken')
    /\ bcSince' = IF bcResult' = "Panic" THEN bcSince
                  ELSE [f \in Futs |-> bcFut[f] # "none"]
    /\ bcEver' = (bcEver \/ bcResult' # "Panic")
    /\ bcOver' = (bcOver \/ count = U64Max)
    /\ bcPend' = IF bcResult' = "Panic" THEN bcPend ELSE [f \in Futs |-> 0]
    /\ UNCHANGED <<snap, bcFut, bcOld, bcStale, overflowChecks>>
    /\ UNCHANGED evVars

\* task f polls its future
BcNotifiedPoll(f) ==
    /\ bcFut[f] # "none"
    /\ U64Gt(count, snap[f]) \/ Len(list) < MaxList
    /\ BcNotifiedPollBody(f)
    /\ bcFut' = [bcFut EXCEPT ![f] =
                    IF bcResult' = "Ready" THEN "ready" ELSE "pending"]
    /\ bcOp' = "poll"
    /\ bcWho' = f
    /\ bcWoken' = <<>>
    /\ bcSched' = bcSched \ {f}
    /\ UNCHANGED <<count, snap, bcSince, bcEver, bcOld, bcStale>>
    /\ bcPend' = IF bcResult' = "Pending"
                 THEN [bcPend EXCEPT ![f] = @ + 1] ELSE bcPend
    /\ UNCHANGED <<overflowChecks, bcOver, bcAtWake>>
    /\ UNCHANGED evVars

\* task f drops its future (Notified has no Drop impl: a handle it stored
\* stays in the list)
BcNotifiedDrop(f) ==
    /\ bcFut[f] # "none"
    /\ bcFut' = [bcFut EXCEPT ![f] = "none"]
    /\ snap' = [snap EXCEPT ![f] = 0]
    /\ bcOp' = "drop"
    /\ bcWho' = f
    /\ bcResult' = "None"
    /\ bcWoken' = <<>>
    /\ bcSince' = [bcSince EXCEPT ![f] = FALSE]
    /\ bcOld' = [bcOld EXCEPT ![f] = FALSE]
    /\ bcStale' = (bcStale \/ bcFut[f] \in {"created", "pending"})
    /\ UNCHANGED <<count, list, bcSched, bcEver, overflowChecks, bcOver>>
    /\ UNCHANGED <<bcAtWake, bcPend>>
    /\ UNCHANGED evVars

vars == <<evVars, bcVars>>

Init == EvInit /\ BcInit

EvNext ==
    \/ ListenerNotified
    \/ NotifierNotify
    \/ \E w \in Wakers : NotifiedPoll(w)
    \/ NotifiedDrop

BcNext ==
    \/ \E f \in Futs : BcNotified(f)
    \/ BcNotify
    \/ \E f \in Futs : BcNotifiedPoll(f)
    \/ \E f \in Futs : BcNotifiedDrop(f)

\* the single-wait pair on its own
EvSpec == Init /\ [][EvNext]_vars

\* the broadcast notifier on its own
BcSpec == Init /\ [][BcNext]_vars

\* A Notify late in its life: 2^64 - WrapGap notify() calls have been made
\* and no future is alive
BcLateInit ==
    /\ count = U64Max - (WrapGap - 1)
    /\ WakerListNew
    /\ overflowChecks \in BOOLEAN
    /\ bcOver = FALSE
    /\ bcAtWake = 0
    /\ bcPend = [f \in Futs |-> 0]
    /\ snap = [f \in Futs |-> 0]
    /\ bcFut = [f \in Futs |-> "none"]
    /\ bcOp = "new"
    /\ bcWho = 0
    /\ bcResult = "None"
    /\ bcWoken = <<>>
    /\ bcSched = {}
    /\ bcSince = [f \in Futs |-> FALSE]
    /\ bcEver = TRUE
    /\ bcOld = [f \in Futs |-> FALSE]
    /\ bcStale = FALSE

\* the broadcast notifier from there on
LateInit == EvInit /\ BcLateInit

BcLateSpec == LateInit /\ [][BcNext]_vars

\* The two primitives share no state, so a behaviour of a program that uses
\* both is an interleaving of a behaviour of each.  A run of Spec exercises
\* one primitive and leaves the other as constructed.
EvOnly == bcOp = "new"
BcOnly == evOp = "event"

Next ==
    \/ EvOnly /\ ListenerNotified
    \/ EvOnly /\ NotifierNotify
    \/ EvOnly /\ \E w \in Wakers : NotifiedPoll(w)
    \/ EvOnly /\ NotifiedDrop
    \/ BcOnly /\ \E f \in Futs : BcNotified(f)
    \/ BcOnly /\ BcNotify
    \/ BcOnly /\ \E f \in Futs : BcNotifiedPoll(f)
    \/ BcOnly /\ \E f \in Futs : BcNotifiedDrop(f)

Spec == Init /\ [][Next]_vars

\* ------------------------------------------------------------- scheduling
\* The executor polls a future that is being awaited for the first time, and
\* re-polls a task whenever one of its wake handles has been invoked.  Polls
\* at any other moment are possible but not guaranteed.
EvFirstPoll ==
    /\ evFut = "created"
    /\ \E w \in Wakers : NotifiedPoll(w)

EvSchedPoll ==
    /\ \E w \in evSched : NotifiedPoll(w)

BcFirstPoll(f) ==
    /\ bcFut[f] = "created"
    /\ BcNotifiedPoll(f)

BcSchedPoll(f) ==
    /\ f \in bcSched
    /\ BcNotifiedPoll(f)

\* the single-wait pair under that scheduler
EvLiveSpec == EvSpec /\ WF_vars(EvFirstPoll) /\ WF_vars(EvSchedPoll)

\* the broadcast notifier under that scheduler
BcLiveSpec ==
    /\ BcSpec
    /\ \A f \in Futs : WF_vars(BcFirstPoll(f)) /\ WF_vars(BcSchedPoll(f))

\* ------------------------------------------------------------------ claims
EvPollStep == \E w \in Wakers : NotifiedPoll(w)

\* C1: single-wait no lost wakeup.  A wait future that is outstanding when
\* notify() is called, or that is created after a notify() no poll has
\* consumed, eventually returns Ready (unless it is dropped first); and a poll
\* returns Ready only if a notify() was called after the previous poll, so one
\* notify() yields one Ready.
C1_NoLostWakeup ==
    /\ evOwed ~> (evFut \in {"ready", "none"})
    /\ [][EvPollStep /\ evResult' = "Ready" => evFresh > 0]_vars

\* the future was polled Pending, then notified, and its re-poll was Ready
C1_Witness ==
    /\ evOp = "poll"
    /\ evResult = "Ready"
    /\ evPolls >= 2

\* C2: broadcast no lost wakeup.  For a future created before a notify():
\* every handle in the callback sequence at the notify() is woken, every poll
\* of the future after the notify() returns Ready, and under the scheduler
\* the future eventually returns Ready (unless it is dropped first).
C2_BroadcastNoLostWakeup ==
    /\ \A f \in Futs :
          (bcFut[f] \in {"created", "pending"} /\ bcSince[f])
             ~> (bcFut[f] \in {"ready", "none"})
    /\ [][BcNotify => \A i \in 1..Len(list) : list[i] \in bcSched']_vars
    /\ [][\A f \in Futs : BcNotifiedPoll(f) /\ bcSince[f]
                             => bcResult' = "Ready"]_vars

\* a notify() has just woken a registered future while another future,
\* created before it, has not been polled yet
C2_Witness ==
    /\ bcOp = "notify"
    /\ \E f, g \in Futs :
          /\ bcFut[f] = "pending" /\ bcSince[f]
          /\ f \in Range(bcWoken) /\ f \in bcSched
          /\ bcFut[g] = "created" /\ bcSince[g]

C4_Epoch ==
    [][\A f \in Futs :
          BcNotifiedPoll(f) /\ bcOld[f]
             => (bcResult' = IF bcSince[f] THEN "Ready" ELSE "Pending")]_vars

\* a future created after a notify() has been polled Pending
C4_Witness ==
    /\ bcOp = "poll"
    /\ bcResult = "Pending"
    /\ bcOld[bcWho]
    /\ count >= 1

\* a suspended future: its latest poll returned Pending, no notify() since
Suspended(f) == bcFut[f] = "pending" /\ ~bcSince[f]

\* C5: broadcast fan-out.  One notify() invokes the wake handle of every
\* suspended future, and the next poll of each of them returns Ready.
C5_FanOut ==
    /\ [][BcNotify => \A f \in Futs : Suspended(f) => f \in Range(bcWoken')]_vars
    /\ [][\A f \in Futs :
             BcNotifiedPoll(f) /\ bcFut[f] = "pending" /\ bcSince[f]
                => bcResult' = "Ready"]_vars

\* one notify() has just woken two distinct suspended futures
C5_Witness ==
    /\ bcOp = "notify"
    /\ Cardinality(Range(bcWoken)) >= 2
    /\ \A f \in Range(bcWoken) : bcFut[f] = "pending" /\ bcSince[f]

\* C6: idempotent pending flag.  After N >= 1 notify() calls with no poll in
\* between, the shared state is the one a single notify() leaves (flag set,
\* no handle stored); the first poll then returns Ready and clears the flag,
\* and a poll made with no notify() since the previous poll returns Pending.
C6_Idempotent ==
    /\ [](evFresh > 0 => state = TRUE /\ waker = NoWaker)
    /\ [][EvPollStep /\ evFresh > 0 => evResult' = "Ready" /\ state' = FALSE]_vars
    /\ [][EvPollStep /\ evFresh = 0 => evResult' = "Pending"]_vars

\* a poll made after two or more notify() calls in a row has returned Ready
C6_Witness ==
    /\ evOp = "poll"
    /\ evResult = "Ready"
    /\ evBurst >= 2
    /\ state = FALSE

\* the wait future has seen a notify() since the later of its creation and
\* its previous poll
EvNotifiedSinceCreatedOrPolled ==
    IF evFut = "created" THEN evSince ELSE evFresh > 0

\* C7 as stated: in both primitives a poll returns Ready exactly when a
\* notify() happened after the creation of the future or after its previous
\* poll.
C7_Original ==
    /\ [][EvPollStep =>
             (evResult' = "Ready" <=> EvNotifiedSinceCreatedOrPolled)]_vars
    /\ [][\A f \in Futs :
             BcNotifiedPoll(f) => (bcResult' = "Ready" <=> bcSince[f])]_vars

\* C7 as amended: a poll of a broadcast future returns Ready exactly when a
\* notify() happened after the creation of that future; a poll of a
\* single-wait future returns Ready exactly when a notify() happened after
\* the latest poll of any future of the pair (after event() if there was no
\* poll), whether or not the polled future existed at that notify().
C7_ResolveIff ==
    /\ [][EvPollStep => (evResult' = "Ready" <=> evFresh > 0)]_vars
    /\ [][\A f \in Futs :
             BcNotifiedPoll(f) => (bcResult' = "Ready" <=> bcSince[f])]_vars

\* the first poll of a single-wait future returned Ready although no
\* notify() was called after the future was created
C7_Witness ==
    /\ evOp = "poll"
    /\ evResult = "Ready"
    /\ evPolls = 1
    /\ ~evSince

\* C8: drop safety.  Once a future has been dropped before it returned
\* Ready, the operations stay available, every later poll returns what the
\* history of notify() calls and Ready polls alone determines (single-wait:
\* Ready iff a notify() followed the latest Ready poll; broadcast: Ready iff a
\* notify() followed the creation of the polled future), and the next
\* notify() invokes each handle that is still stored once and leaves none.
C8_DropSafety ==
    /\ [](evStale /\ evFut = "none" => ENABLED ListenerNotified)
    /\ [](evStale => ENABLED NotifierNotify)
    /\ [](bcStale /\ count < MaxCount => ENABLED BcNotify)
    /\ [][evStale /\ EvPollStep => (evResult' = "Ready" <=> evCredit)]_vars
    /\ [][evStale /\ NotifierNotify
             => waker' = NoWaker /\ Len(evWoken') <= 1]_vars
    /\ [][\A f \in Futs :
             bcStale /\ BcNotifiedPoll(f)
                => (bcResult' = "Ready" <=> bcSince[f])]_vars
    /\ [][bcStale /\ BcNotify
             => list' = <<>> /\ Len(bcWoken') = Len(list)]_vars

\* after a future was dropped unresolved, a notify() was made and the first
\* poll of a new future returned Ready, in either primitive
C8_Witness ==
    \/ evStale /\ evOp = "poll" /\ evResult = "Ready" /\ evPolls = 1 /\ evSince
    \/ /\ bcStale /\ bcOp = "poll" /\ bcResult = "Ready"
       /\ bcSince[bcWho]

\* the number of entries of s that are the handle f
Occ(s, f) == Cardinality({i \in 1..Len(s) : s[i] = f})

\* C9: effect of the broadcast notify().  Each call adds exactly 1 to count,
\* invokes the wake operation of every stored handle exactly once and leaves
\* the callback sequence empty, however many handles were stored.
C9_NotifyEffect ==
    [][BcNotify =>
          /\ count' = count + 1
          /\ list' = <<>>
          /\ \A f \in Futs : Occ(bcWoken', f) = Occ(list, f)]_vars

\* a notify() has just drained a list of two or more handles
C9_Witness ==
    /\ bcOp = "notify"
    /\ Len(bcWoken) >= 2
    /\ list = <<>>
    /\ count >= 1

\* C10: effect of the single-wait notify().  It leaves the flag set whatever
\* it was before, takes the stored handle if there is one and invokes exactly
\* that handle once, and invokes nothing if no handle was stored.
C10_NotifyEffect ==
    [][NotifierNotify =>
          /\ state' = TRUE
          /\ waker' = NoWaker
          /\ evWoken' = IF waker # NoWaker THEN <<waker>> ELSE <<>>]_vars

\* a notify() has just taken and invoked the stored handle
C10_Witness ==
    /\ evOp = "notify"
    /\ Len(evWoken) = 1
    /\ state = TRUE
    /\ waker = NoWaker

BcLive(f) == bcFut[f] # "none"

\* C11 as stated: count never decreases as a u64, every notify() adds
\* exactly 1 to it without wrapping, and the snapshot of every future is <=
\* the live count.
C11_Original ==
    /\ [][U64Le(count, count')]_vars
    /\ [][BcNotify => count' = count + 1 /\ U64Gt(count', count)]_vars
    /\ [](\A f \in Futs : BcLive(f) => U64Le(snap[f], count))

\* C11 as amended: until notify() is called with count at u64::MAX (the
\* 2^64-th call), count never decreases, every notify() adds exactly 1 to it,
\* no other operation changes it, and the snapshot of every future is <= the
\* live count.
C11_MonotoneBeforeOverflow ==
    /\ [][~bcOver' => U64Le(count, count')]_vars
    /\ [][~bcOver' /\ BcNotify => count' = count + 1 /\ U64Gt(count', count)]_vars
    /\ [][~BcNotify => count' = count]_vars
    /\ [](~bcOver => \A f \in Futs : BcLive(f) => U64Le(snap[f], count))

\* count has reached u64::MAX by notify() calls, without overflow so far,
\* while a future holds an older snapshot
C11_Witness ==
    /\ ~bcOver
    /\ bcOp = "notify"
    /\ count = U64Max
    /\ \E f \in Futs : BcLive(f) /\ U64Gt(count, snap[f])

\* C12: exclusivity.  At most one Notified future of the Listener exists at
\* any time (notified() needs the Listener unborrowed), and the shared state
\* holds at most one wake handle: the single cell is None or one handle.
C12_Exclusivity ==
    /\ evLive <= 1
    /\ evLive = (IF evFut = "none" THEN 0 ELSE 1)
    /\ waker \in Wakers \cup {NoWaker}

\* a second future of the pair exists alone, suspended with its handle
\* stored, after the first one was dropped
C12_Witness ==
    /\ evStale
    /\ evLive = 1
    /\ evFut = "pending"
    /\ waker # NoWaker

\* C13: the single-wait poll is a read-and-clear.  With the flag set it
\* clears it, returns Ready and leaves the stored handle alone; with the flag
\* clear it stores the handle of this poll in place of any earlier one and
\* returns Pending; the next notify() wakes exactly the handle of the most
\* recent Pending poll.
C13_ReadAndClear ==
    /\ [][\A w \in Wakers :
             NotifiedPoll(w) =>
                /\ state' = FALSE
                /\ state => evResult' = "Ready" /\ waker' = waker
                /\ ~state => evResult' = "Pending" /\ waker' = w]_vars
    /\ [][NotifierNotify =>
             evWoken' = IF evLastW # NoWaker THEN <<evLastW>> ELSE <<>>]_vars

\* after Pending polls with two different handles a notify() has woken one
\* handle
C13_Witness ==
    /\ evOp = "notify"
    /\ evReplaced
    /\ Len(evWoken) = 1

\* C14: ordering inside notify().  Whenever notify() invokes a wake handle
\* the notification is already recorded: the single-wait flag is set, and
\* the broadcast count is the incremented one, above the snapshot of every
\* future whose handle is invoked, so a poll run from inside wake() would
\* return Ready.
C14_RecordBeforeWake ==
    /\ [][NotifierNotify /\ evWoken' # <<>> => evAtWake' = TRUE]_vars
    /\ [][BcNotify /\ bcWoken' # <<>> =>
             /\ bcAtWake' = count + 1
             /\ \A f \in Range(bcWoken') :
                   BcLive(f) => U64Gt(bcAtWake', snap[f])]_vars

\* a notify() has just invoked a stored handle, in either primitive
C14_Witness ==
    \/ evOp = "notify" /\ evWoken # <<>> /\ evAtWake
    \/ bcOp = "notify" /\ bcWoken # <<>> /\ bcAtWake = count

\* C15: frame of the broadcast wait and poll.  notified() changes neither
\* count nor the callback sequence nor the snapshot of another future, and
\* records the live count in the new future; a poll changes neither count
\* nor any snapshot, leaves the sequence unchanged when it returns Ready and
\* appends exactly its own handle when it returns Pending.
C15_Frame ==
    /\ [][\A f \in Futs :
             BcNotified(f) =>
                /\ count' = count
                /\ list' = list
                /\ snap' = [snap EXCEPT ![f] = count]]_vars
    /\ [][\A f \in Futs :
             BcNotifiedPoll(f) =>
                /\ count' = count
                /\ snap' = snap
                /\ bcResult' = "Ready" => list' = list
                /\ bcResult' = "Pending" => list' = Append(list, f)]_vars

\* a poll has returned Ready while handles of other futures were stored
C15_Witness ==
    /\ bcOp = "poll"
    /\ bcResult = "Ready"
    /\ list # <<>>

\* C16: data-model invariant of the broadcast notifier.  A handle enters the
\* callback sequence only by a poll of a live future whose snapshot is <= the
\* live count at that moment, so every entry is a handle pushed by such a
\* poll since the latest notify(); and a notify() leaves in the sequence no
\* handle that was stored before it.
C16_StoredHandles ==
    /\ [][list' # list /\ list' # <<>> =>
             \E f \in Futs :
                /\ BcNotifiedPoll(f)
                /\ BcLive(f)
                /\ U64Le(snap[f], count)
                /\ list' = Append(list, f)]_vars
    /\ [](\A f \in Futs : Occ(list, f) <= bcPend[f])
    /\ [][BcNotify => list' = <<>>]_vars

\* after a notify() the sequence holds exactly the one handle that a poll
\* of a future created since has just stored
C16_Witness ==
    /\ bcOp = "poll"
    /\ bcResult = "Pending"
    /\ list = <<bcWho>>
    /\ count >= 1
    /\ snap[bcWho] = count

\* C17: over any run of the single-wait pair the polls that returned Ready
\* never outnumber the notify() calls, and a poll returns Ready only when a
\* notify() was made that no earlier Ready poll has consumed.
C17_ReadyWithinNotifies ==
    /\ [](evSurplus >= 0)
    /\ [][EvPollStep /\ evResult' = "Ready" => evCredit /\ evSurplus >= 1]_vars

\* two notify() calls were consumed by one Ready poll: a notification is
\* left over that no later poll can claim
C17_Witness ==
    /\ evOp = "poll"
    /\ evResult = "Ready"
    /\ evBurst >= 2
    /\ evSurplus >= 1
    /\ ~evCredit

\* C18: every suspended broadcast future has a handle of its task in the
\* callback sequence and a snapshot equal to the live count, so the next
\* notify() cannot skip it.
C18_SuspendedRegistered ==
    \A f \in Futs :
       Suspended(f) => Occ(list, f) >= 1 /\ bcPend[f] >= 1 /\ snap[f] = count

\* two futures are suspended at the same time, after an earlier notify()
C18_Witness ==
    /\ \A f \in {1, 2} : Suspended(f)
    /\ count >= 1
    /\ Len(list) >= 2

\* C19: in the single-wait shared state the flag is never set while a handle
\* is stored, and the pair starts with the flag clear and no handle.
C19_FlagExcludesHandle ==
    /\ ~(state /\ waker # NoWaker)
    /\ evOp = "event" => ~state /\ waker = NoWaker

\* a handle is stored, with the flag clear, after a notification was
\* consumed
C19_Witness ==
    /\ waker # NoWaker
    /\ ~state
    /\ evFut = "pending"
    /\ evPolls >= 2

\* C20: bookkeeping of the callback sequence.  Its length is the number of
\* polls that returned Pending since the latest notify(), task by task;
\* dropping a future removes nothing; and the next notify() invokes the
\* handle of a task once per such poll.
C20_ListBookkeeping ==
    /\ [](\A f \in Futs : Occ(list, f) = bcPend[f])
    /\ [][\A f \in Futs : BcNotifiedDrop(f) => list' = list]_vars
    /\ [][BcNotify => \A f \in Futs : Occ(bcWoken', f) = bcPend[f]]_vars

\* a notify() has invoked the handle of one task twice
C20_Witness ==
    /\ bcOp = "notify"
    /\ \E f \in Futs : Occ(bcWoken, f) >= 2

====
